---------------------------- MODULE Spec2Model ----------------------------
(***************************************************************************)
(* A model of the lbex external load-balancer controller                   *)
(* (src/controller.go, and the earlier revision of the same file,          *)
(* src/unnamed/part_000).                                                  *)
(*                                                                         *)
(* Strings that the code formats, splits or rewrites (namespaces, names,   *)
(* keys, addresses, rule names) are sequences of one-character strings.    *)
(* Strings that are only compared (annotation values, protocol and port    *)
(* names) are TLA+ strings.                                                *)
(***************************************************************************)
EXTENDS Integers, Sequences, FiniteSets, TLC

VARIABLES
    servicesStore,   \* lbex.servicesStore: key -> *v1.Service
    endpointStore,   \* lbex.endpointStore: key -> *v1.Endpoints
    nodesStore,      \* lbex.nodesStore: key -> *v1.Node
    service,         \* lbex.service: the scoping parameter ("" = all)
    nodesQueue,      \* lbex.nodesQueue
    servicesQueue,   \* lbex.servicesQueue
    endpointsQueue,  \* lbex.endpointsQueue
    cfgtor,          \* lbex.cfgtor: the Configurator's state
    events,          \* the number of watch events delivered so far
    last             \* observation: the last call made and what it did

vars == <<servicesStore, endpointStore, nodesStore, service,
          nodesQueue, servicesQueue, endpointsQueue, cfgtor, events, last>>

-----------------------------------------------------------------------------
(* Bounds of the model *)

MaxSubsets == 2      \* subsets of one Endpoints object
MaxAddrs == 1        \* addresses of one subset
MaxEpPorts == 1      \* port entries of one subset
MaxEndpoints == 2    \* Endpoints objects in the endpoint store
MaxStoreSubsets == 3 \* subsets of all the Endpoints objects of the store
MaxPorts == 2        \* ports of one service
MaxServices == 2     \* services in the service store
NumWorkers == 1      \* workers draining one queue
MaxRetries == 1      \* the queue's retry ceiling
MaxAffected == 2     \* service keys the Configurator reports for one node
MaxEvents == 3       \* watch events delivered in one run

-----------------------------------------------------------------------------
(* Sequences and strings *)

Range(s) == {s[i] : i \in 1..Len(s)}

RECURSIVE Concat(_)
\* the concatenation of a sequence of sequences
Concat(ss) == IF ss = <<>> THEN <<>> ELSE Head(ss) \o Concat(Tail(ss))

\* the sequences over S of length at most n
SeqsUpTo(S, n) == UNION {[1..k -> S] : k \in 0..n}

\* the sequences over S of length at most n without a repeated element
DistinctSeqs(S, n) ==
    {s \in SeqsUpTo(S, n) : \A i, j \in 1..Len(s) : s[i] = s[j] => i = j}

\* every order in which the elements of the finite set S can be listed
Orders(S) == {s \in [1..Cardinality(S) -> S] : Range(s) = S}

Digit(d) == CASE d = 0 -> "0" [] d = 1 -> "1" [] d = 2 -> "2" [] d = 3 -> "3"
              [] d = 4 -> "4" [] d = 5 -> "5" [] d = 6 -> "6" [] d = 7 -> "7"
              [] d = 8 -> "8" [] d = 9 -> "9"

RECURSIVE IntToStr(_)
\* fmt's %v of a non-negative int: its decimal digits
IntToStr(n) == IF n < 10 THEN <<Digit(n)>>
               ELSE IntToStr(n \div 10) \o <<Digit(n % 10)>>

-----------------------------------------------------------------------------
(* The objects of the stores *)

None == "<none>"

\* the (namespace, name) pairs of the objects of the model
ObjectIds == {<<<<"a">>, <<"c">>>>,
              <<<<"a", "-", "b">>, <<"c">>>>,
              <<<<"a">>, <<"b", "-", "c">>>>}
IPSet == {<<"1", ".", "1">>, <<"1", ".", "2">>}
PortNumbers == {80, 81}
PortNames == {"http", "dns"}

\* cache.MetaNamespaceKeyFunc: namespace/name
KeyOf(namespace, name) == namespace \o <<"/">> \o name

Keys == {KeyOf(id[1], id[2]) : id \in ObjectIds}

\* v1.EndpointPort
EndpointPorts == [Name : PortNames, Port : PortNumbers]

\* v1.EndpointSubset
EndpointSubsets ==
    [Addresses : DistinctSeqs(IPSet, MaxAddrs),
     Ports : DistinctSeqs(EndpointPorts, MaxEpPorts)]

\* v1.Endpoints
EndpointsObject(id, subsets) ==
    [kind |-> "Endpoints", Namespace |-> id[1], Name |-> id[2],
     Subsets |-> subsets]

\* intstr.IntOrString
TargetPorts ==
    [Type : {"Int"}, IntVal : PortNumbers, StrVal : {""}]
    \cup [Type : {"String"}, IntVal : {0}, StrVal : PortNames]

\* v1.ServicePort
ServicePorts ==
    [Port : PortNumbers, TargetPort : TargetPorts, Protocol : {"TCP", "UDP"}]

\* v1.Service; v gives its type, annotations and ports
ServiceObject(id, v) ==
    [kind |-> "Service", Namespace |-> id[1], Name |-> id[2], Type |-> v.Type,
     Annotations |-> [class |-> v.class, host |-> v.host,
                      algorithm |-> v.algorithm],
     Ports |-> v.Ports]

\* a store: a function from the keys it holds to the objects
ObjKey(obj) == KeyOf(obj.Namespace, obj.Name)

StoreOf(objs) == [k \in {ObjKey(o) : o \in objs} |->
                     CHOOSE o \in objs : ObjKey(o) = k]

EmptyStore == StoreOf({})

IdOfKey(k) == CHOOSE id \in ObjectIds : KeyOf(id[1], id[2]) = k

\* the store that holds Make(id, f[id]) for each id of K
StoreFrom(K, f, Make(_, _)) ==
    [k \in {KeyOf(id[1], id[2]) : id \in K} |-> Make(IdOfKey(k), f[IdOfKey(k)])]

\* the sets of at most n object ids
IdSets(n) == {S \in SUBSET ObjectIds : Cardinality(S) <= n}

\* cache.Store.List(), in the order ord of the store's keys
List(store, ord) == [i \in 1..Len(ord) |-> store[ord[i]]]


-----------------------------------------------------------------------------
(* The supporting functions of package main and of the annotations package *)

supportedAlgorithms == <<"roundrobin", "leastconn">>
defaultAlgorithm == "roundrobin"

\* the value of the class annotation that opts a service in
LBExClass == "loadbalancer-lbex"

\* annotations.IsValid: the class annotation is present and names this controller
IsValid(svc) == svc.Annotations.class = LBExClass

\* annotations.GetHost: the host annotation's value, and whether it is present
GetHost(svc) ==
    [val |-> IF svc.Annotations.host = None THEN "" ELSE svc.Annotations.host,
     ok |-> svc.Annotations.host # None]

\* annotations.GetAlgorithm: the algorithm annotation's value, and whether it
\* is present
GetAlgorithm(svc) ==
    [val |-> IF svc.Annotations.algorithm = None THEN ""
             ELSE svc.Annotations.algorithm,
     ok |-> svc.Annotations.algorithm # None]

\* ValidateServiceObjectType: nil exactly for a *v1.Service
ValidateServiceObjectType(obj) == obj.kind = "Service"

\* ValidateServiceObject: a *v1.Service, not of the LoadBalancer type, with
\* the class annotation
ValidateServiceObject(obj) ==
    /\ ValidateServiceObjectType(obj)
    /\ obj.Type # "LoadBalancer"
    /\ IsValid(obj)

GetServiceName(obj) == obj.Name

GetServiceNamespace(obj) == obj.Namespace

\* GetServicePortTargetPortInt: the numeric value of the target port, which a
\* symbolic target port does not have
GetServicePortTargetPortInt(servicePort) ==
    IF servicePort.TargetPort.Type = "Int"
    THEN [val |-> servicePort.TargetPort.IntVal, err |-> FALSE]
    ELSE [val |-> 0, err |-> TRUE]

\* GetServiceNameForLBRule(serviceName, servicePort): the rule name, made of
\* the two values it is given
GetServiceNameForLBRule(serviceName, servicePort) ==
    serviceName \o <<":">> \o IntToStr(servicePort)

\* the bytes of the characters that occur in names
Code(c) == CASE c = "-" -> 45 [] c = "." -> 46 [] c = "/" -> 47
             [] c = "0" -> 48 [] c = "1" -> 49 [] c = "2" -> 50
             [] c = "3" -> 51 [] c = "4" -> 52 [] c = "5" -> 53
             [] c = "6" -> 54 [] c = "7" -> 55 [] c = "8" -> 56
             [] c = "9" -> 57 [] c = ":" -> 58 [] c = "a" -> 97
             [] c = "b" -> 98 [] c = "c" -> 99

RECURSIVE StrLess(_, _)
\* Go's < on strings: bytewise lexicographic
StrLess(x, y) ==
    IF y = <<>> THEN FALSE
    ELSE IF x = <<>> THEN TRUE
    ELSE IF Code(Head(x)) # Code(Head(y)) THEN Code(Head(x)) < Code(Head(y))
    ELSE StrLess(Tail(x), Tail(y))

\* serviceByName.Less
serviceByNameLess(x, y) == StrLess(x.Name, y.Name)

\* a list is in the order sort.Sort(serviceByName(..)) leaves it in
IsSortedByName(s) ==
    \A i, j \in 1..Len(s) : i < j => ~serviceByNameLess(s[j], s[i])

RECURSIVE insertByName(_, _)
\* one step of the insertion sort: x, appended to the sorted list s, moves
\* down while it is less than the record before it
insertByName(s, x) ==
    IF s = <<>> THEN <<x>>
    ELSE IF serviceByNameLess(x, s[Len(s)])
         THEN Append(insertByName(SubSeq(s, 1, Len(s) - 1), x), s[Len(s)])
    ELSE Append(s, x)

\* the list left as it was appended to
sortByName_none(s) == s

RECURSIVE sortByName(_)
\* sort.Sort(serviceByName(s)), which for the short lists of the model (fewer
\* than 7 records) is the library's insertion sort
sortByName(s) ==
    IF s = <<>> THEN <<>>
    ELSE insertByName(sortByName(SubSeq(s, 1, Len(s) - 1)), s[Len(s)])

-----------------------------------------------------------------------------
(* The resolver of src/controller.go *)

Panic == [panic |-> TRUE]

RECURSIVE getServiceEndpoints_nameOnly(_, _)
\* getServiceEndpoints that compares the names and not the namespaces
getServiceEndpoints_nameOnly(svc, list) ==
    IF list = <<>> THEN [panic |-> FALSE, err |-> TRUE, endpoints |-> None]
    ELSE IF Head(list).kind # "Endpoints" THEN [panic |-> TRUE]
    ELSE IF svc.Name = Head(list).Name
         THEN [panic |-> FALSE, err |-> FALSE, endpoints |-> Head(list)]
    ELSE getServiceEndpoints_nameOnly(svc, Tail(list))

RECURSIVE getServiceEndpoints(_, _)
\* getServiceEndpoints(service), list being what endpointStore.List() returned
getServiceEndpoints(svc, list) ==
    IF list = <<>> THEN [panic |-> FALSE, err |-> TRUE, endpoints |-> None]
    ELSE IF Head(list).kind # "Endpoints" THEN Panic
    ELSE IF svc.Name = Head(list).Name /\ svc.Namespace = Head(list).Namespace
         THEN [panic |-> FALSE, err |-> FALSE, endpoints |-> Head(list)]
    ELSE getServiceEndpoints(svc, Tail(list))

\* targetPort with a numeric target port also matched by the entry's name
\* being the port's own name, and a symbolic one also by number
targetPort_anyCriterion(servicePort, epPort) ==
    IF servicePort.TargetPort.Type = "Int"
    THEN IF epPort.Port = servicePort.TargetPort.IntVal
         THEN servicePort.TargetPort.IntVal ELSE 0
    ELSE IF \/ epPort.Name = servicePort.TargetPort.StrVal
            \/ epPort.Port = servicePort.Port
         THEN epPort.Port
    ELSE 0

\* the body of getEndpoints' inner loop: the target port an endpoint port
\* entry resolves to for a service port, 0 when it does not match
targetPort(servicePort, epPort) ==
    IF servicePort.TargetPort.Type = "Int"
    THEN LET r == GetServicePortTargetPortInt(servicePort) IN
         IF r.err THEN 0
         ELSE IF epPort.Port = r.val THEN r.val ELSE 0
    ELSE IF epPort.Name = servicePort.TargetPort.StrVal THEN epPort.Port
    ELSE 0

\* fmt.Sprintf("%v:%v", epAddress.IP, targetPort)
FormatEndpoint(ip, port) == ip \o <<":">> \o IntToStr(port)

\* the addresses one subset contributes
subsetEndpoints(servicePort, subset) ==
    Concat([i \in 1..Len(subset.Ports) |->
        LET tp == targetPort(servicePort, subset.Ports[i]) IN
        IF tp = 0 THEN <<>>
        ELSE [j \in 1..Len(subset.Addresses) |->
                 FormatEndpoint(subset.Addresses[j], tp)]])

\* getEndpoints that stops at the first subset that contributes addresses
getEndpoints_firstSubset(svc, servicePort, list) ==
    LET se == getServiceEndpoints(svc, list) IN
    IF se.panic THEN Panic
    ELSE IF se.err THEN [panic |-> FALSE, endpoints |-> <<>>]
    ELSE LET per == [i \in 1..Len(se.endpoints.Subsets) |->
                        subsetEndpoints(servicePort, se.endpoints.Subsets[i])]
             hit == {i \in 1..Len(per) : per[i] # <<>>}
         IN [panic |-> FALSE,
             endpoints |-> IF hit = {} THEN <<>>
                           ELSE per[CHOOSE i \in hit : \A j \in hit : i <= j]]

\* getEndpoints(service, servicePort), list being what endpointStore.List()
\* returned
getEndpoints(svc, servicePort, list) ==
    LET se == getServiceEndpoints(svc, list) IN
    IF se.panic THEN Panic
    ELSE IF se.err THEN [panic |-> FALSE, endpoints |-> <<>>]
    ELSE [panic |-> FALSE,
          endpoints |-> Concat([i \in 1..Len(se.endpoints.Subsets) |->
              subsetEndpoints(servicePort, se.endpoints.Subsets[i])])]

-----------------------------------------------------------------------------
(* The resolver of the earlier revision, src/unnamed/part_000 *)

RECURSIVE getServiceEndpoints_part000(_, _)
\* getServiceEndpoints(service), list being what servicesStore.List() returned
getServiceEndpoints_part000(svc, list) ==
    IF list = <<>> THEN [panic |-> FALSE, err |-> TRUE, endpoints |-> None]
    ELSE IF Head(list).kind # "Endpoints" THEN Panic
    ELSE IF svc.Name = Head(list).Name /\ svc.Namespace = Head(list).Namespace
         THEN [panic |-> FALSE, err |-> FALSE, endpoints |-> Head(list)]
    ELSE getServiceEndpoints_part000(svc, Tail(list))

\* getTargetPort(servicePort): the numeric value of the target port
getTargetPort(servicePort) ==
    IF servicePort.TargetPort.Type = "Int"
    THEN servicePort.TargetPort.IntVal ELSE 0

targetPort_part000(servicePort, epPort) ==
    IF servicePort.TargetPort.Type = "Int"
    THEN IF epPort.Port = getTargetPort(servicePort) THEN epPort.Port ELSE 0
    ELSE IF epPort.Name = servicePort.TargetPort.StrVal THEN epPort.Port
    ELSE 0

subsetEndpoints_part000(servicePort, subset) ==
    Concat([i \in 1..Len(subset.Ports) |->
        LET tp == targetPort_part000(servicePort, subset.Ports[i]) IN
        IF tp = 0 THEN <<>>
        ELSE [j \in 1..Len(subset.Addresses) |->
                 FormatEndpoint(subset.Addresses[j], tp)]])

\* getEndpoints(service, servicePort), list being what servicesStore.List()
\* returned
getEndpoints_part000(svc, servicePort, list) ==
    LET se == getServiceEndpoints_part000(svc, list) IN
    IF se.panic THEN Panic
    ELSE IF se.err THEN [panic |-> FALSE, endpoints |-> <<>>]
    ELSE [panic |-> FALSE,
          endpoints |-> Concat([i \in 1..Len(se.endpoints.Subsets) |->
              subsetEndpoints_part000(servicePort, se.endpoints.Subsets[i])])]

-----------------------------------------------------------------------------
(* getService and getServices of src/controller.go *)

NoServices == [panic |-> FALSE, tcp |-> <<>>, udp |-> <<>>]

\* the Algorithm field getService gives a record
algorithmOf(svc) ==
    LET a == GetAlgorithm(svc) IN
    IF a.ok
    THEN IF \E i \in 1..Len(supportedAlgorithms) : a.val = supportedAlgorithms[i]
         THEN a.val ELSE ""
    ELSE defaultAlgorithm

\* the record getService builds for a service port that resolved to ep
newSvc(svc, serviceName, servicePort, ep) ==
    [Name |-> GetServiceNameForLBRule(serviceName, servicePort.Port),
     Ep |-> ep,
     BackendPort |-> GetServicePortTargetPortInt(servicePort).val,
     Host |-> IF GetHost(svc).ok THEN GetHost(svc).val ELSE "",
     Algorithm |-> algorithmOf(svc),
     FrontendPort |-> servicePort.Port]

\* the loop of getService leaving at the first port without endpoints (break
\* for continue)
servicePortsLoop_break(svc, serviceName, ords) ==
    LET n == Len(svc.Ports)
        ep == [i \in 1..n |->
                  getEndpoints(svc, svc.Ports[i], List(endpointStore, ords[i]))]
        rec(i) == newSvc(svc, serviceName, svc.Ports[i], ep[i].endpoints)
        reached(i) == \A j \in 1..i : Len(ep[j].endpoints) # 0
        kept(i, udp) ==
            IF ~reached(i) THEN <<>>
            ELSE IF (svc.Ports[i].Protocol = "UDP") = udp THEN <<rec(i)>>
            ELSE <<>>
    IN  IF \E i \in 1..n : ep[i].panic THEN [panic |-> TRUE]
        ELSE [panic |-> FALSE,
              tcp |-> sortByName(Concat([i \in 1..n |-> kept(i, FALSE)])),
              udp |-> sortByName(Concat([i \in 1..n |-> kept(i, TRUE)]))]

\* the loop of getService over the ports of svc; ords[i] is the order in which
\* endpointStore.List() lists its keys in the i-th iteration
servicePortsLoop(svc, serviceName, ords) ==
    LET n == Len(svc.Ports)
        ep == [i \in 1..n |->
                  getEndpoints(svc, svc.Ports[i], List(endpointStore, ords[i]))]
        rec(i) == newSvc(svc, serviceName, svc.Ports[i], ep[i].endpoints)
        kept(i, udp) ==
            IF Len(ep[i].endpoints) = 0 THEN <<>>
            ELSE IF (svc.Ports[i].Protocol = "UDP") = udp THEN <<rec(i)>>
            ELSE <<>>
    IN  IF \E i \in 1..n : ep[i].panic THEN Panic
        ELSE [panic |-> FALSE,
              tcp |-> sortByName(Concat([i \in 1..n |-> kept(i, FALSE)])),
              udp |-> sortByName(Concat([i \in 1..n |-> kept(i, TRUE)]))]

\* getService without the validation of the object
getService_skipValidation(key, err, ords) ==
    IF err \/ key \notin DOMAIN servicesStore THEN NoServices
    ELSE LET obj == servicesStore[key]
             serviceName == GetServiceName(obj) IN
         IF service # <<>> /\ service # serviceName THEN NoServices
         ELSE servicePortsLoop(obj, serviceName, ords)

\* getService without the comparison with the scoping parameter
getService_noScoping(key, err, ords) ==
    IF err \/ key \notin DOMAIN servicesStore THEN NoServices
    ELSE LET obj == servicesStore[key] IN
         IF ~ValidateServiceObject(obj) THEN NoServices
         ELSE servicePortsLoop(obj, GetServiceName(obj), ords)

\* getService(key); err: servicesStore.GetByKey fails
getService(key, err, ords) ==
    IF err \/ key \notin DOMAIN servicesStore THEN NoServices
    ELSE LET obj == servicesStore[key] IN
         IF ~ValidateServiceObject(obj) THEN NoServices
         ELSE LET serviceName == GetServiceName(obj) IN
              IF service # <<>> /\ service # serviceName THEN NoServices
              ELSE servicePortsLoop(obj, serviceName, ords)

\* getServices(); svcOrd is the order in which servicesStore.List() lists its
\* keys, ords[j] the order of endpointStore.List() while the j-th port of an
\* object is resolved
getServices(svcOrd, ords) ==
    LET objects == List(servicesStore, svcOrd)
        n == Len(objects)
        one == [i \in 1..n |->
            IF ~ValidateServiceObject(objects[i]) THEN NoServices
            ELSE getService(KeyOf(GetServiceNamespace(objects[i]),
                                  GetServiceName(objects[i])), FALSE, ords)]
    IN  IF \E i \in 1..n : one[i].panic THEN Panic
        ELSE [panic |-> FALSE,
              tcp |-> sortByName(Concat([i \in 1..n |-> one[i].tcp])),
              udp |-> sortByName(Concat([i \in 1..n |-> one[i].udp]))]

-----------------------------------------------------------------------------
(* getServices of src/unnamed/part_000 *)

\* getServiceNameForLBRule(service, servicePort): the rule name, made of the
\* service's namespace and name and of the port
getServiceNameForLBRule(svc, servicePort) ==
    svc.Namespace \o <<"/">> \o svc.Name \o <<":">> \o IntToStr(servicePort)

newSvc_part000(svc, servicePort, ep) ==
    [Name |-> getServiceNameForLBRule(svc, servicePort.Port),
     Ep |-> ep,
     BackendPort |-> getTargetPort(servicePort),
     Host |-> IF GetHost(svc).ok THEN GetHost(svc).val ELSE "",
     Algorithm |-> algorithmOf(svc),
     FrontendPort |-> servicePort.Port]

\* the records of one listed object; ords[j] is the order in which
\* servicesStore.List() lists its keys for the j-th port
serviceRecords_part000(obj, ords) ==
    IF obj.kind # "Service" THEN NoServices
    ELSE IF obj.Type = "LoadBalancer" THEN NoServices
    ELSE IF ~IsValid(obj) THEN NoServices
    ELSE LET n == Len(obj.Ports)
             scoped == service # <<>> /\ service # obj.Name
             ep == [j \in 1..n |->
                       getEndpoints_part000(obj, obj.Ports[j],
                                            List(servicesStore, ords[j]))]
             kept(j, udp) ==
                 IF Len(ep[j].endpoints) = 0 THEN <<>>
                 ELSE IF (obj.Ports[j].Protocol = "UDP") = udp
                      THEN <<newSvc_part000(obj, obj.Ports[j], ep[j].endpoints)>>
                 ELSE <<>>
         IN  IF scoped THEN NoServices
             ELSE IF \E j \in 1..n : ep[j].panic THEN Panic
             ELSE [panic |-> FALSE,
                   tcp |-> Concat([j \in 1..n |-> kept(j, FALSE)]),
                   udp |-> Concat([j \in 1..n |-> kept(j, TRUE)])]

getServices_part000(svcOrd, ords) ==
    LET objects == List(servicesStore, svcOrd)
        n == Len(objects)
        one == [i \in 1..n |-> serviceRecords_part000(objects[i], ords)]
    IN  IF \E i \in 1..n : one[i].panic THEN Panic
        ELSE [panic |-> FALSE,
              tcp |-> sortByName(Concat([i \in 1..n |-> one[i].tcp])),
              udp |-> sortByName(Concat([i \in 1..n |-> one[i].udp]))]

-----------------------------------------------------------------------------
(* The controller's state after newLbExController *)

\* NewTaskQueue(syncFn): nothing queued, no worker busy, no key failed
\* the value of a worker's slot while it processes no key
NoKey == <<>>

NewTaskQueue ==
    [queue |-> <<>>,
     processing |-> [w \in 1..NumWorkers |-> NoKey],
     retries |-> <<>>,
     shuttingDown |-> FALSE]

\* nginx.NewConfigurator: no node, no configuration
NewConfigurator == [nodes |-> {}, configs |-> <<>>]

ControllerInit ==
    /\ nodesQueue = NewTaskQueue
    /\ servicesQueue = NewTaskQueue
    /\ endpointsQueue = NewTaskQueue
    /\ cfgtor = NewConfigurator
    /\ events = 0
    /\ last = [op |-> "none"]

controllerVars == <<nodesQueue, servicesQueue, endpointsQueue, cfgtor, events>>
storeVars == <<servicesStore, endpointStore, nodesStore, service>>

-----------------------------------------------------------------------------
(* getEndpoints on the contents of the endpoint store *)

RECURSIVE SumOver(_, _)
SumOver(f, K) == IF K = {} THEN 0
                 ELSE LET k == CHOOSE x \in K : TRUE
                      IN f[k] + SumOver(f, K \ {k})

InitEndpoints ==
    /\ servicesStore = EmptyStore
    /\ nodesStore = EmptyStore
    /\ service = <<>>
    /\ \E K \in IdSets(MaxEndpoints) :
         \E f \in [K -> SeqsUpTo(EndpointSubsets, MaxSubsets)] :
            /\ SumOver([id \in K |-> Len(f[id])], K) <= MaxStoreSubsets
            /\ endpointStore = StoreFrom(K, f, EndpointsObject)
    /\ ControllerInit

\* a service object of which getEndpoints reads the name and the namespace
ServiceIdentity(id) == [kind |-> "Service", Namespace |-> id[1], Name |-> id[2]]

\* getEndpoints(service, servicePort) is called; the result is recorded for
\* every order in which endpointStore.List() can list the store
CallGetEndpoints ==
    /\ last.op = "none"
    /\ \E id \in ObjectIds, tp \in TargetPorts :
        LET sp == [Port |-> 80, TargetPort |-> tp, Protocol |-> "TCP"] IN
        /\ last' = [op |-> "getEndpoints", id |-> id, servicePort |-> sp,
                    results |-> [ord \in Orders(DOMAIN endpointStore) |->
                        getEndpoints(ServiceIdentity(id), sp,
                                     List(endpointStore, ord))],
                    matched |-> [e \in EndpointPorts |-> targetPort(sp, e) # 0],
                    matched_part000 |->
                        [e \in EndpointPorts |-> targetPort_part000(sp, e) # 0]]
        /\ UNCHANGED <<storeVars, controllerVars>>

NextEndpoints == CallGetEndpoints

SpecEndpoints == InitEndpoints /\ [][NextEndpoints]_vars

-----------------------------------------------------------------------------
(* Claims about getEndpoints *)

\* the criterion by which a service port's target selects a port entry
Selects(sp, e) ==
    \/ sp.TargetPort.Type = "Int" /\ e.Port = sp.TargetPort.IntVal
    \/ sp.TargetPort.Type = "String" /\ e.Name = sp.TargetPort.StrVal

\* the subsets of the companion Endpoints object of the service id
CompanionSubsets(id) ==
    IF KeyOf(id[1], id[2]) \in DOMAIN endpointStore
    THEN endpointStore[KeyOf(id[1], id[2])].Subsets ELSE <<>>

\* the union, over the subsets with a port entry the target selects, of the
\* subset's addresses as ip:port
UnionOfMatchingSubsets(id, sp) ==
    LET ss == CompanionSubsets(id) IN
    UNION {UNION {{ss[i].Addresses[k] \o <<":">> \o IntToStr(ss[i].Ports[j].Port) :
                      k \in 1..Len(ss[i].Addresses)} :
                  j \in {x \in 1..Len(ss[i].Ports) : Selects(sp, ss[i].Ports[x])}} :
           i \in 1..Len(ss)}

\* C6: the entries of the list getEndpoints returns are exactly the union,
\* over the subsets of the companion Endpoints object that have a port entry
\* matching the service port's target, of the subset's addresses as ip:port;
\* nothing comes from a subset without a matching entry or from another
\* Endpoints object.
C6_UnionSemantics ==
    last.op = "getEndpoints" =>
        \A ord \in DOMAIN last.results :
            /\ ~last.results[ord].panic
            /\ Range(last.results[ord].endpoints)
                   = UnionOfMatchingSubsets(last.id, last.servicePort)

\* two subsets of the companion object contribute different addresses, while
\* another Endpoints object of the store holds addresses too
C6_Witness ==
    /\ last.op = "getEndpoints"
    /\ Len(CompanionSubsets(last.id)) = 2
    /\ \A ord \in DOMAIN last.results :
          Cardinality(Range(last.results[ord].endpoints)) = 2
    /\ \E k \in DOMAIN endpointStore :
          /\ k # KeyOf(last.id[1], last.id[2])
          /\ \E i \in 1..Len(endpointStore[k].Subsets) :
                /\ endpointStore[k].Subsets[i].Addresses # <<>>
                /\ \E j \in 1..Len(endpointStore[k].Subsets[i].Ports) :
                      Selects(last.servicePort, endpointStore[k].Subsets[i].Ports[j])

\* C7: a symbolic target port matches a port entry exactly when the entry's
\* name is that name, a numeric one exactly when the entry's number is that
\* number, in both revisions of getEndpoints; and the list returned is
\* non-empty exactly when a subset with an address has an entry matched by
\* the criterion of the target's type.
C7_MatchByTypeOnly ==
    last.op = "getEndpoints" =>
        LET sp == last.servicePort
            tp == sp.TargetPort
            ss == CompanionSubsets(last.id)
        IN
        /\ \A e \in EndpointPorts :
              /\ tp.Type = "String" =>
                    /\ last.matched[e] <=> e.Name = tp.StrVal
                    /\ last.matched_part000[e] <=> e.Name = tp.StrVal
              /\ tp.Type = "Int" =>
                    /\ last.matched[e] <=> e.Port = tp.IntVal
                    /\ last.matched_part000[e] <=> e.Port = tp.IntVal
        /\ \A ord \in DOMAIN last.results :
              last.results[ord].endpoints # <<>> <=>
                 \E i \in 1..Len(ss) :
                    /\ ss[i].Addresses # <<>>
                    /\ \E j \in 1..Len(ss[i].Ports) :
                          IF tp.Type = "String"
                          THEN ss[i].Ports[j].Name = tp.StrVal
                          ELSE ss[i].Ports[j].Port = tp.IntVal

\* a symbolic target is resolved against an entry of another name whose
\* number is the service's port, and against an entry of that name: only the
\* second contributes
C7_Witness ==
    /\ last.op = "getEndpoints"
    /\ last.servicePort.TargetPort.Type = "String"
    /\ LET ss == CompanionSubsets(last.id) IN
       /\ Len(ss) = 2
       /\ ss[1].Addresses # <<>> /\ ss[2].Addresses # <<>>
       /\ ss[1].Addresses # ss[2].Addresses
       /\ Len(ss[1].Ports) = 1 /\ Len(ss[2].Ports) = 1
       /\ ss[1].Ports[1].Name # last.servicePort.TargetPort.StrVal
       /\ ss[1].Ports[1].Port = last.servicePort.Port
       /\ ss[2].Ports[1].Name = last.servicePort.TargetPort.StrVal
       /\ \A ord \in DOMAIN last.results :
             last.results[ord].endpoints
                = <<FormatEndpoint(ss[2].Addresses[1], ss[2].Ports[1].Port)>>

-----------------------------------------------------------------------------
(* getService on one service and the contents of the endpoint store *)

\* the service ports of the services resolved: a numeric and a symbolic
\* target over TCP, a numeric one over UDP
ResolvedServicePorts ==
    {[Port |-> 80, Protocol |-> "TCP",
      TargetPort |-> [Type |-> "Int", IntVal |-> 80, StrVal |-> ""]],
     [Port |-> 81, Protocol |-> "TCP",
      TargetPort |-> [Type |-> "String", IntVal |-> 0, StrVal |-> "http"]],
     [Port |-> 81, Protocol |-> "UDP",
      TargetPort |-> [Type |-> "Int", IntVal |-> 81, StrVal |-> ""]]}

ServiceVariants ==
    [Type : {"ClusterIP", "LoadBalancer"},
     class : {None, LBExClass},
     host : {None},
     algorithm : {None, "roundrobin", "leastconn", "weighted"},
     Ports : DistinctSeqs(ResolvedServicePorts, MaxPorts)]

\* the subset lists of the Endpoints objects resolved against: no subset, or
\* one subset with at most one address and one port entry
ResolvedSubsetLists ==
    {<<>>} \cup
    {<<[Addresses |-> a, Ports |-> <<e>>]>> :
        a \in DistinctSeqs(IPSet, 1),
        e \in {[Name |-> "http", Port |-> 80], [Name |-> "dns", Port |-> 81]}}

ScopingValues == {<<>>, <<"c">>}

InitService ==
    /\ nodesStore = EmptyStore
    /\ service \in ScopingValues
    /\ \E K \in IdSets(1) : \E f \in [K -> ServiceVariants] :
          servicesStore = StoreFrom(K, f, ServiceObject)
    /\ \E K \in IdSets(MaxEndpoints) : \E f \in [K -> ResolvedSubsetLists] :
          endpointStore = StoreFrom(K, f, EndpointsObject)
    /\ ControllerInit

\* the orders of endpointStore.List() for the iterations of a loop over the
\* ports of a service
PortOrders == [1..MaxPorts -> Orders(DOMAIN endpointStore)]

\* getService(key) is called; the result is recorded for every order in which
\* endpointStore.List() can list the store in each iteration
CallGetService ==
    /\ last.op = "none"
    /\ \E key \in Keys :
        /\ last' = [op |-> "getService", key |-> key,
                    results |-> [ords \in PortOrders |->
                                    getService(key, FALSE, ords)],
                    onError |-> getService(key, TRUE,
                                           CHOOSE ords \in PortOrders : TRUE)]
        /\ UNCHANGED <<storeVars, controllerVars>>

NextService == CallGetService

SpecService == InitService /\ [][NextService]_vars

-----------------------------------------------------------------------------
(* Claims about getService *)

\* the records of a result, TCP and UDP
Records(result) ==
    IF result.panic THEN {} ELSE Range(result.tcp) \cup Range(result.udp)

\* the object getService(key) reads
Resolved(key) == servicesStore[key]

\* C1: the Algorithm of every record is the service's algorithm annotation
\* when that is roundrobin or leastconn, and roundrobin in every other case,
\* the annotation being absent or unsupported; it is never empty.
C1_AlgorithmSupportedOrDefault ==
    last.op = "getService" =>
        \A ords \in DOMAIN last.results :
            \A r \in Records(last.results[ords]) :
                LET a == Resolved(last.key).Annotations.algorithm IN
                r.Algorithm = IF a \in {"roundrobin", "leastconn"} THEN a
                              ELSE "roundrobin"

\* C5: getService(key) returns the same TCP and UDP lists whatever the order
\* in which endpointStore.List() lists the unchanged store in each call.
C5_SameResultForEveryListOrder ==
    last.op = "getService" =>
        \A o1, o2 \in DOMAIN last.results :
            /\ last.results[o1].tcp = last.results[o2].tcp
            /\ last.results[o1].udp = last.results[o2].udp

\* the endpoint store holds two objects with addresses, so that List() has two
\* orders, and the service resolved has records
C5_Witness ==
    /\ last.op = "getService"
    /\ last.key \in DOMAIN servicesStore
    /\ Cardinality(DOMAIN last.results) > 1
    /\ \A k \in DOMAIN endpointStore :
          /\ endpointStore[k].Name = Resolved(last.key).Name
          /\ Len(endpointStore[k].Subsets) = 1
          /\ endpointStore[k].Subsets[1].Addresses # <<>>
    /\ \E k1, k2 \in DOMAIN endpointStore :
          endpointStore[k1].Subsets[1].Addresses
             # endpointStore[k2].Subsets[1].Addresses
    /\ \A ords \in DOMAIN last.results : Records(last.results[ords]) # {}

\* the i-th port of the service resolved has addresses
PortResolves(svc, i) ==
    UnionOfMatchingSubsets(<<svc.Namespace, svc.Name>>, svc.Ports[i]) # {}

\* the records of a result for the i-th port of the service
RecordsOfPort(result, svc, i) ==
    {r \in Range(IF svc.Ports[i].Protocol = "UDP" THEN result.udp
                 ELSE result.tcp) : r.FrontendPort = svc.Ports[i].Port}

\* the service of the key is in the store, opted in by the class annotation,
\* not of the LoadBalancer type, and not excluded by the scoping parameter
Candidate(key) ==
    /\ key \in DOMAIN servicesStore
    /\ servicesStore[key].Annotations.class = LBExClass
    /\ servicesStore[key].Type # "LoadBalancer"
    /\ service \in {<<>>, servicesStore[key].Name}

\* C9: every record has at least one endpoint address; a port of a candidate
\* service that resolves to no address has no record, and every port that
\* resolves to addresses has its record whatever the other ports resolve to.
C9_NoRecordWithoutEndpoints ==
    last.op = "getService" =>
        \A ords \in DOMAIN last.results :
            LET res == last.results[ords] IN
            /\ \A r \in Records(res) : r.Ep # <<>>
            /\ Candidate(last.key) =>
                  \A i \in 1..Len(Resolved(last.key).Ports) :
                      RecordsOfPort(res, Resolved(last.key), i) # {}
                         <=> PortResolves(Resolved(last.key), i)

\* the first port of the service resolves to no address and the second one
\* does: the result holds the second port's record alone
C9_Witness ==
    /\ last.op = "getService"
    /\ last.key \in DOMAIN servicesStore
    /\ Len(Resolved(last.key).Ports) = 2
    /\ ~PortResolves(Resolved(last.key), 1)
    /\ PortResolves(Resolved(last.key), 2)
    /\ \A ords \in DOMAIN last.results :
          /\ Cardinality(Records(last.results[ords])) = 1
          /\ RecordsOfPort(last.results[ords], Resolved(last.key), 2) # {}

-----------------------------------------------------------------------------
(* getServices and getService on several services *)

ListedServicePorts ==
    {[Port |-> 80, Protocol |-> "TCP",
      TargetPort |-> [Type |-> "Int", IntVal |-> 80, StrVal |-> ""]],
     [Port |-> 81, Protocol |-> "UDP",
      TargetPort |-> [Type |-> "String", IntVal |-> 0, StrVal |-> "dns"]]}

ListedServiceVariants ==
    [Type : {"ClusterIP", "LoadBalancer"},
     class : {None, LBExClass},
     host : {None},
     algorithm : {None},
     Ports : DistinctSeqs(ListedServicePorts, MaxPorts)]

ListedSubsetLists ==
    {<<>>,
     <<[Addresses |-> <<<<"1", ".", "1">>>>,
        Ports |-> <<[Name |-> "http", Port |-> 80]>>]>>,
     <<[Addresses |-> <<<<"1", ".", "2">>>>,
        Ports |-> <<[Name |-> "dns", Port |-> 81]>>]>>}

\* a lone service can also have a second TCP port, with a symbolic target
LoneServiceVariants ==
    ListedServiceVariants \cup
    [Type : {"ClusterIP"},
     class : {LBExClass},
     host : {None},
     algorithm : {None},
     Ports : {ports \in DistinctSeqs(ListedServicePorts \cup
                 {[Port |-> 81, Protocol |-> "TCP",
                   TargetPort |-> [Type |-> "String", IntVal |-> 0,
                                   StrVal |-> "http"]]}, MaxPorts) :
                 \E i \in 1..Len(ports) : ports[i] \notin ListedServicePorts}]

InitServices ==
    /\ nodesStore = EmptyStore
    /\ service \in ScopingValues
    /\ \E K \in IdSets(MaxServices) :
       \E f \in [K -> IF Cardinality(K) = 1 THEN LoneServiceVariants
                      ELSE ListedServiceVariants] :
          servicesStore = StoreFrom(K, f, ServiceObject)
    /\ \E K \in IdSets(MaxEndpoints) : \E f \in [K -> ListedSubsetLists] :
          endpointStore = StoreFrom(K, f, EndpointsObject)
    /\ ControllerInit

\* getServices() is called; the result is recorded for every order in which
\* the stores' List() can list them
CallGetServices ==
    /\ last.op = "none"
    /\ last' = [op |-> "getServices",
                results |-> [o \in Orders(DOMAIN servicesStore) \X PortOrders |->
                                getServices(o[1], o[2])]]
    /\ UNCHANGED <<storeVars, controllerVars>>

\* getServices() of the earlier revision is called
CallGetServices_part000 ==
    /\ last.op = "none"
    /\ last' = [op |-> "getServices_part000",
                results |-> [o \in Orders(DOMAIN servicesStore)
                                   \X [1..MaxPorts -> Orders(DOMAIN servicesStore)] |->
                                getServices_part000(o[1], o[2])]]
    /\ UNCHANGED <<storeVars, controllerVars>>

NextServices ==
    \/ CallGetServices
    \/ CallGetServices_part000
    \/ CallGetService

SpecServices == InitServices /\ [][NextServices]_vars

-----------------------------------------------------------------------------
(* Claims about the filtering of services *)

\* the service of the key is opted in by the class annotation and is not of
\* the LoadBalancer type
Eligible(key) ==
    /\ servicesStore[key].Annotations.class = LBExClass
    /\ servicesStore[key].Type # "LoadBalancer"

\* the record r, of the UDP list or of the TCP list, is the record of a port
\* of the service obj
DerivedFrom(r, udp, obj) ==
    \E i \in 1..Len(obj.Ports) :
        /\ obj.Ports[i].Port = r.FrontendPort
        /\ (obj.Ports[i].Protocol = "UDP") = udp
        /\ r.Ep # <<>>
        /\ Range(r.Ep) = UnionOfMatchingSubsets(<<obj.Namespace, obj.Name>>,
                                                obj.Ports[i])

\* every record of the result is the record of a port of a service of KeySet
AllDerivedFrom(result, KeySet) ==
    \/ result.panic
    \/ /\ \A n \in 1..Len(result.tcp) : \E k \in KeySet :
             DerivedFrom(result.tcp[n], FALSE, servicesStore[k])
       /\ \A n \in 1..Len(result.udp) : \E k \in KeySet :
             DerivedFrom(result.udp[n], TRUE, servicesStore[k])

RecordCount(result) ==
    IF result.panic THEN 0 ELSE Len(result.tcp) + Len(result.udp)

\* the number of ports of the services of KeySet that resolve to addresses
ResolvingPorts(KeySet) ==
    SumOver([k \in KeySet |->
                Cardinality({i \in 1..Len(servicesStore[k].Ports) :
                                PortResolves(servicesStore[k], i)})], KeySet)

\* the keys a call can take its records from
KeysRead == IF last.op = "getService" THEN {last.key} \cap DOMAIN servicesStore
            ELSE DOMAIN servicesStore

\* C8: every record of the output of getService and of getServices (of either
\* revision) is the record of a port of a service that has the class
\* annotation and is not of the LoadBalancer type; a service without the
\* annotation, or of that type, contributes no record even when its ports
\* resolve to addresses.
C8_OnlyEligibleServices ==
    last.op \in {"getService", "getServices", "getServices_part000"} =>
        LET E == {k \in KeysRead : Eligible(k)} IN
        \A o \in DOMAIN last.results :
            /\ AllDerivedFrom(last.results[o], E)
            /\ RecordCount(last.results[o]) <= ResolvingPorts(E)

\* the store holds a service without the class annotation and a service of the
\* LoadBalancer type with it, the ports of both resolve to addresses, and
\* getServices returns no record
C8_Witness ==
    /\ last.op = "getServices"
    /\ service = <<>>
    /\ \E k1, k2 \in DOMAIN servicesStore :
          /\ servicesStore[k1].Annotations.class = None
          /\ servicesStore[k1].Type = "ClusterIP"
          /\ servicesStore[k2].Annotations.class = LBExClass
          /\ servicesStore[k2].Type = "LoadBalancer"
          /\ ResolvingPorts({k1}) > 0 /\ ResolvingPorts({k2}) > 0
    /\ \A o \in DOMAIN last.results :
          ~last.results[o].panic /\ RecordCount(last.results[o]) = 0

\* C10: with the scoping parameter set to S, every record of the output of
\* getService and of getServices is the record of a port of an eligible
\* service named S, under the rule name of S and that port; with the
\* parameter empty, every port of every eligible service that resolves to
\* addresses has its record, whatever the service's name.
C10_ScopedToOneService ==
    last.op \in {"getService", "getServices", "getServices_part000"} =>
        LET E == {k \in KeysRead : Eligible(k)}
            S == {k \in E : servicesStore[k].Name = service}
        IN
        \A o \in DOMAIN last.results :
            LET res == last.results[o] IN
            /\ service # <<>> =>
                  /\ AllDerivedFrom(res, S)
                  /\ RecordCount(res) <= ResolvingPorts(S)
                  /\ last.op # "getServices_part000" =>
                        \A r \in Records(res) :
                            r.Name = GetServiceNameForLBRule(service, r.FrontendPort)
            /\ service = <<>> /\ ~res.panic =>
                  RecordCount(res) = ResolvingPorts(E)

\* the parameter names one of two eligible services whose ports resolve to
\* addresses, and getServices returns the records of that one alone
C10_Witness ==
    /\ last.op = "getServices"
    /\ service # <<>>
    /\ \E k1, k2 \in DOMAIN servicesStore :
          /\ Eligible(k1) /\ Eligible(k2)
          /\ servicesStore[k1].Name = service
          /\ servicesStore[k2].Name # service
          /\ ResolvingPorts({k1}) > 0 /\ ResolvingPorts({k2}) > 0
          /\ \A o \in DOMAIN last.results :
                /\ ~last.results[o].panic
                /\ RecordCount(last.results[o]) = ResolvingPorts({k1})

-----------------------------------------------------------------------------
(* The work queue: TaskQueue *)

IsShuttingDown(q) == q.shuttingDown

\* the keys the workers of the queue are processing
InFlight(q) == {q.processing[w] : w \in 1..NumWorkers} \ {NoKey}

\* Enqueue(key): nothing for a key that is queued or being processed
Enqueue(q, key) ==
    IF key \in Range(q.queue) \/ key \in InFlight(q) THEN q
    ELSE [q EXCEPT !.queue = Append(@, key)]

\* the keys of the list put on the queue without Enqueue
EnqueueAll_append(q, keys) == [q EXCEPT !.queue = @ \o keys]

RECURSIVE EnqueueAll(_, _)
\* Enqueue of each key of the list keys, in its order
EnqueueAll(q, keys) ==
    IF keys = <<>> THEN q
    ELSE EnqueueAll(Enqueue(q, Head(keys)), Tail(keys))

\* the worker w takes the key at the head of the queue
Get(q, w) == [q EXCEPT !.queue = Tail(@), !.processing[w] = Head(q.queue)]

Retries(q, key) == IF key \in DOMAIN q.retries THEN q.retries[key] ELSE 0

\* the sync function of the worker w returned: on an error the key is queued
\* again until the retry ceiling is reached, and is forgotten otherwise
Done(q, w, err) ==
    LET key == q.processing[w]
        n == Retries(q, key)
        free == [q EXCEPT !.processing[w] = NoKey]
    IN  IF err /\ n < MaxRetries
        THEN [free EXCEPT
                 !.queue = IF key \in Range(@) THEN @ ELSE Append(@, key),
                 !.retries = [k \in DOMAIN @ \cup {key} |->
                                 IF k = key THEN n + 1 ELSE @[k]]]
        ELSE [free EXCEPT
                 !.retries = [k \in DOMAIN @ \ {key} |-> @[k]]]

\* a key is dequeued while the queue is shutting down: the sync function
\* returns at once and the key is forgotten
Drop(q) ==
    [q EXCEPT !.queue = Tail(@),
              !.retries = [k \in DOMAIN @ \ {Head(q.queue)} |-> @[k]]]

-----------------------------------------------------------------------------
(* The Configurator: nginx.Configurator *)

StreamCfg == "StreamCfg"

\* the effect of one call on the Configurator's state
ApplyOp(c, op) ==
    CASE op.call = "DeleteNode" -> [c EXCEPT !.nodes = @ \ {op.key}]
      [] op.call = "AddOrUpdateNode" -> [c EXCEPT !.nodes = @ \cup {op.node.Name}]
      [] op.call = "AddOrUpdateService" ->
            [c EXCEPT !.configs = [f \in DOMAIN @ \cup {op.filename} |->
                IF f = op.filename THEN op.svcSpec.Key ELSE @[f]]]
      [] op.call = "DeleteConfiguration" ->
            [c EXCEPT !.configs = [f \in DOMAIN @ \ {op.filename} |-> @[f]]]

RECURSIVE ApplyOps(_, _)
ApplyOps(c, ops) ==
    IF ops = <<>> THEN c ELSE ApplyOps(ApplyOp(c, Head(ops)), Tail(ops))

\* the lists of service keys DeleteNode and AddOrUpdateNode can return
AffectedLists == SeqsUpTo(Keys, MaxAffected)

-----------------------------------------------------------------------------
(* Nodes *)

NodeKeys == {<<"n">>}

\* v1.Node; v tells whether it has addresses and whether it is schedulable
NodeObject(name, v) ==
    [kind |-> "Node", Name |-> name, HasAddresses |-> v.HasAddresses,
     Unschedulable |-> v.Unschedulable]

NodeVariants == [HasAddresses : BOOLEAN, Unschedulable : {FALSE}]

\* ValidateNodeObjectType: nil exactly for a *v1.Node
ValidateNodeObjectType(obj) == obj.kind = "Node"

\* GetNodeAddress: the addresses of the node, an error when it has none
GetNodeAddress(obj) ==
    IF obj.HasAddresses
    THEN [err |-> FALSE, Hostname |-> obj.Name, ExternalIP |-> <<"e">>,
          InternalIP |-> <<"i">>]
    ELSE [err |-> TRUE]

IsNodeScheduleable(obj) == ~obj.Unschedulable

-----------------------------------------------------------------------------
(* The sync functions of src/controller.go, after the IsShuttingDown test *)

RECURSIVE Replace(_, _, _)
\* strings.Replace(s, old, new, -1) for a one-character old
Replace(s, old, new) ==
    IF s = <<>> THEN <<>>
    ELSE <<IF Head(s) = old THEN new ELSE Head(s)>> \o Replace(Tail(s), old, new)

\* what an invocation did: its return value, the Configurator calls it made
\* and the keys it put on the service queue
Outcome(ret, ops, enqueued) == [ret |-> ret, ops |-> ops, enqueued |-> enqueued]

\* syncNodes that leaves out the first of the affected services
syncNodes_skipFirst(key, err, affected) ==
    IF err THEN Outcome("err", <<>>, <<>>)
    ELSE LET rest == IF affected = <<>> THEN <<>> ELSE Tail(affected) IN
         IF key \notin DOMAIN nodesStore
         THEN Outcome("nil", <<[call |-> "DeleteNode", key |-> key]>>, rest)
         ELSE LET addrs == GetNodeAddress(nodesStore[key]) IN
              IF addrs.err THEN Outcome("nil", <<>>, <<>>)
              ELSE Outcome("nil",
                     <<[call |-> "AddOrUpdateNode",
                        node |-> [Name |-> key,
                                  Hostname |-> addrs.Hostname,
                                  ExternalIP |-> addrs.ExternalIP,
                                  InternalIP |-> addrs.InternalIP,
                                  Active |-> IsNodeScheduleable(nodesStore[key])]]>>,
                     rest)

\* syncNodes(key); err: nodesStore.GetByKey fails; affected: the list the
\* Configurator returns
syncNodes(key, err, affected) ==
    IF err THEN Outcome("err", <<>>, <<>>)
    ELSE IF key \notin DOMAIN nodesStore
    THEN Outcome("nil", <<[call |-> "DeleteNode", key |-> key]>>, affected)
    ELSE LET storeObj == nodesStore[key] IN
         IF ~ValidateNodeObjectType(storeObj) THEN Outcome("nil", <<>>, <<>>)
         ELSE LET addrs == GetNodeAddress(storeObj) IN
              IF addrs.err THEN Outcome("nil", <<>>, <<>>)
              ELSE Outcome("nil",
                     <<[call |-> "AddOrUpdateNode",
                        node |-> [Name |-> key,
                                  Hostname |-> addrs.Hostname,
                                  ExternalIP |-> addrs.ExternalIP,
                                  InternalIP |-> addrs.InternalIP,
                                  Active |-> IsNodeScheduleable(storeObj)]]>>,
                     affected)

\* syncServices that removes the configuration of a service that resolves to
\* nothing
syncServices_deleteUnresolved(key, err, err2, ords) ==
    LET filename == Replace(key, "/", "-")
        remove == <<[call |-> "DeleteConfiguration", filename |-> filename,
                     cfgType |-> StreamCfg]>> IN
    IF err THEN Outcome("err", <<>>, <<>>)
    ELSE IF key \notin DOMAIN servicesStore THEN Outcome("nil", remove, <<>>)
    ELSE LET r == getService(key, err2, ords) IN
         IF Len(r.udp) = 0 /\ Len(r.tcp) = 0 THEN Outcome("nil", remove, <<>>)
         ELSE Outcome("nil",
                <<[call |-> "AddOrUpdateService", filename |-> filename,
                   svcSpec |-> [Key |-> key, Service |-> servicesStore[key]]]>>,
                <<>>)

\* syncServices(key); err: servicesStore.GetByKey fails in syncServices, err2:
\* it fails in getService
syncServices(key, err, err2, ords) ==
    LET filename == Replace(key, "/", "-") IN
    IF err THEN Outcome("err", <<>>, <<>>)
    ELSE IF key \notin DOMAIN servicesStore
    THEN Outcome("nil", <<[call |-> "DeleteConfiguration",
                           filename |-> filename, cfgType |-> StreamCfg]>>, <<>>)
    ELSE LET storeObj == servicesStore[key] IN
         IF ~ValidateServiceObjectType(storeObj) THEN Outcome("nil", <<>>, <<>>)
         ELSE LET r == getService(key, err2, ords) IN
              IF r.panic THEN Outcome("panic", <<>>, <<>>)
              ELSE IF Len(r.udp) = 0 /\ Len(r.tcp) = 0
              THEN Outcome("nil", <<>>, <<>>)
              ELSE IF storeObj.kind # "Service" THEN Outcome("panic", <<>>, <<>>)
              ELSE Outcome("nil",
                     <<[call |-> "AddOrUpdateService", filename |-> filename,
                        svcSpec |-> [Key |-> key, Service |-> storeObj]]>>,
                     <<>>)

\* syncEndpoints(key) of src/unnamed/part_000, after the IsShuttingDown test;
\* err: endpointStore.GetByKey fails; svcOrd and ords: the orders of the
\* listings in getServices
syncEndpoints_part000(key, err, svcOrd, ords) ==
    IF err THEN Outcome("err", <<>>, <<>>)
    ELSE IF key \notin DOMAIN endpointStore THEN Outcome("nil", <<>>, <<>>)
    ELSE LET endpoints == endpointStore[key] IN
         IF endpoints.kind # "Endpoints"
               \/ endpoints.Namespace = <<"k", "u", "b", "e", "-", "s", "y", "s", "t", "e", "m">>
         THEN Outcome("nil", <<>>, <<>>)
         ELSE LET r == getServices_part000(svcOrd, ords) IN
              IF r.panic THEN Outcome("panic", <<>>, <<>>)
              ELSE Outcome("nil", <<>>, <<>>)

\* syncEndpoints(key); err: endpointStore.GetByKey fails, err2:
\* servicesStore.GetByKey fails in getService
syncEndpoints(key, err, err2, ords) ==
    IF err THEN Outcome("err", <<>>, <<>>)
    ELSE IF key \notin DOMAIN endpointStore THEN Outcome("nil", <<>>, <<>>)
    ELSE LET r == getService(key, err2, ords) IN
         IF r.panic THEN Outcome("panic", <<>>, <<>>)
         ELSE Outcome("nil", <<>>, <<>>)

-----------------------------------------------------------------------------
(* The controller: the informers fill the stores and the queues, one worker
   loop per queue runs the sync functions *)

\* the objects the informers report
WatchedIds == {<<<<"a", "-", "b">>, <<"c">>>>, <<<<"a">>, <<"b", "-", "c">>>>}
WatchedKeys == {KeyOf(id[1], id[2]) : id \in WatchedIds}

\* a service of the class of the controller with one port, and one without
\* the class annotation
WatchedServiceVariants ==
    [Type : {"ClusterIP"},
     class : {None, LBExClass},
     host : {None},
     algorithm : {None},
     Ports : {<<[Port |-> 80, Protocol |-> "TCP",
                 TargetPort |-> [Type |-> "Int", IntVal |-> 80, StrVal |-> ""]]>>}]

\* Endpoints with one address behind the port 80
WatchedSubsetLists ==
    {<<[Addresses |-> <<<<"1", ".", "1">>>>,
        Ports |-> <<[Name |-> "http", Port |-> 80]>>]>>}

Init ==
    /\ servicesStore = EmptyStore
    /\ endpointStore = EmptyStore
    /\ nodesStore = EmptyStore
    /\ service = <<>>
    /\ ControllerInit

\* the store after the informer has seen under key the object obj, or its
\* deletion
Observed(store, key, deleted, obj) ==
    IF deleted THEN [k \in DOMAIN store \ {key} |-> store[k]]
    ELSE [k \in DOMAIN store \cup {key} |-> IF k = key THEN obj ELSE store[k]]

\* what an informer's event handler leaves in last
EnqueueCall(queue, key, q) ==
    [op |-> "Enqueue", queue |-> queue, key |-> key,
     queued |-> key \in Range(q.queue), inFlight |-> key \in InFlight(q)]

\* the service informer sees an add, an update, a resync or a delete
ServiceEvent ==
    /\ events < MaxEvents
    /\ \E id \in WatchedIds :
       \E deleted \in BOOLEAN : \E obj \in {ServiceObject(id, v) : v \in WatchedServiceVariants} :
          LET key == KeyOf(id[1], id[2]) IN
          /\ deleted => key \in DOMAIN servicesStore
          /\ servicesStore' = Observed(servicesStore, key, deleted, obj)
          /\ servicesQueue' = Enqueue(servicesQueue, key)
          /\ last' = EnqueueCall("services", key, servicesQueue)
    /\ events' = events + 1
    /\ UNCHANGED <<endpointStore, nodesStore, service, nodesQueue,
                   endpointsQueue, cfgtor>>

\* the endpoints informer sees an add, an update, a resync or a delete
EndpointsEvent ==
    /\ events < MaxEvents
    /\ \E id \in WatchedIds :
       \E deleted \in BOOLEAN : \E obj \in {EndpointsObject(id, ss) : ss \in WatchedSubsetLists} :
          LET key == KeyOf(id[1], id[2]) IN
          /\ deleted => key \in DOMAIN endpointStore
          /\ endpointStore' = Observed(endpointStore, key, deleted, obj)
          /\ endpointsQueue' = Enqueue(endpointsQueue, key)
          /\ last' = EnqueueCall("endpoints", key, endpointsQueue)
    /\ events' = events + 1
    /\ UNCHANGED <<servicesStore, nodesStore, service, nodesQueue,
                   servicesQueue, cfgtor>>

\* the node informer sees an add, an update, a resync or a delete
NodeEvent ==
    /\ events < MaxEvents
    /\ \E key \in NodeKeys :
       \E deleted \in BOOLEAN : \E obj \in {NodeObject(key, v) : v \in NodeVariants} :
          /\ deleted => key \in DOMAIN nodesStore
          /\ nodesStore' = Observed(nodesStore, key, deleted, obj)
          /\ nodesQueue' = Enqueue(nodesQueue, key)
          /\ last' = EnqueueCall("nodes", key, nodesQueue)
    /\ events' = events + 1
    /\ UNCHANGED <<servicesStore, endpointStore, service, servicesQueue,
                   endpointsQueue, cfgtor>>

\* the shutdown signal reaches the queues
ShutDown ==
    /\ ~IsShuttingDown(servicesQueue)
    /\ nodesQueue' = [nodesQueue EXCEPT !.shuttingDown = TRUE]
    /\ servicesQueue' = [servicesQueue EXCEPT !.shuttingDown = TRUE]
    /\ endpointsQueue' = [endpointsQueue EXCEPT !.shuttingDown = TRUE]
    /\ last' = [op |-> "ShutDown"]
    /\ UNCHANGED <<storeVars, cfgtor, events>>

\* what a sync function that finds its queue shutting down leaves in last
EarlyReturn(op, key) ==
    [op |-> op, key |-> key, started |-> "shuttingDown", shutdown |-> TRUE,
     err |-> FALSE, err2 |-> FALSE, ret |-> "nil", ops |-> <<>>,
     affected |-> <<>>, enqueued |-> <<>>, before |-> <<>>]

\* what a sync function that ran leaves in last
Returned(op, key, q, err, err2, affected, out) ==
    [op |-> op, key |-> key, started |-> "running",
     shutdown |-> IsShuttingDown(q), err |-> err, err2 |-> err2,
     ret |-> out.ret, ops |-> out.ops, affected |-> affected,
     enqueued |-> out.enqueued,
     before |-> IF op = "syncNodes" THEN servicesQueue.queue ELSE <<>>]

\* what the worker leaves in last when it takes a key
Dequeued(queue, key) == [op |-> "Get", queue |-> queue, key |-> key]

\* a worker of the node queue takes a key and enters syncNodes, which tests
\* IsShuttingDown
BeginSyncNodes(w) ==
    /\ nodesQueue.queue # <<>>
    /\ nodesQueue.processing[w] = NoKey
    /\ IF IsShuttingDown(nodesQueue)
       THEN /\ nodesQueue' = Drop(nodesQueue)
            /\ last' = EarlyReturn("syncNodes", Head(nodesQueue.queue))
       ELSE /\ nodesQueue' = Get(nodesQueue, w)
            /\ last' = Dequeued("nodes", Head(nodesQueue.queue))
    /\ UNCHANGED <<storeVars, servicesQueue, endpointsQueue, cfgtor, events>>

\* syncNodes runs from the store lookup to its return
EndSyncNodes(w) ==
    /\ nodesQueue.processing[w] # NoKey
    /\ \E err \in BOOLEAN : \E affected \in AffectedLists :
          LET key == nodesQueue.processing[w]
              out == syncNodes(key, err, affected) IN
          /\ err => affected = <<>>
          /\ cfgtor' = ApplyOps(cfgtor, out.ops)
          /\ servicesQueue' = EnqueueAll(servicesQueue, out.enqueued)
          /\ nodesQueue' = Done(nodesQueue, w, out.ret = "err")
          /\ last' = Returned("syncNodes", key, nodesQueue, err, FALSE,
                              affected, out)
    /\ UNCHANGED <<storeVars, endpointsQueue, events>>

\* syncServices entered without the IsShuttingDown test
BeginSyncServices_noTest(w) ==
    /\ servicesQueue.queue # <<>>
    /\ servicesQueue.processing[w] = NoKey
    /\ servicesQueue' = Get(servicesQueue, w)
    /\ last' = Dequeued("services", Head(servicesQueue.queue))
    /\ UNCHANGED <<storeVars, nodesQueue, endpointsQueue, cfgtor, events>>

\* a worker of the service queue takes a key and enters syncServices
BeginSyncServices(w) ==
    /\ servicesQueue.queue # <<>>
    /\ servicesQueue.processing[w] = NoKey
    /\ IF IsShuttingDown(servicesQueue)
       THEN /\ servicesQueue' = Drop(servicesQueue)
            /\ last' = EarlyReturn("syncServices", Head(servicesQueue.queue))
       ELSE /\ servicesQueue' = Get(servicesQueue, w)
            /\ last' = Dequeued("services", Head(servicesQueue.queue))
    /\ UNCHANGED <<storeVars, nodesQueue, endpointsQueue, cfgtor, events>>

\* syncServices runs from the store lookup to its return
EndSyncServices(w) ==
    /\ servicesQueue.processing[w] # NoKey
    /\ \E err \in BOOLEAN : \E err2 \in BOOLEAN : \E ords \in PortOrders :
          LET key == servicesQueue.processing[w]
              out == syncServices(key, err, err2, ords) IN
          /\ err => ~err2
          /\ cfgtor' = ApplyOps(cfgtor, out.ops)
          /\ servicesQueue' = Done(servicesQueue, w, out.ret = "err")
          /\ last' = Returned("syncServices", key, servicesQueue, err, err2,
                              <<>>, out)
    /\ UNCHANGED <<storeVars, nodesQueue, endpointsQueue, events>>

\* a worker of the endpoint queue takes a key and enters syncEndpoints
BeginSyncEndpoints(w) ==
    /\ endpointsQueue.queue # <<>>
    /\ endpointsQueue.processing[w] = NoKey
    /\ IF IsShuttingDown(endpointsQueue)
       THEN /\ endpointsQueue' = Drop(endpointsQueue)
            /\ last' = EarlyReturn("syncEndpoints", Head(endpointsQueue.queue))
       ELSE /\ endpointsQueue' = Get(endpointsQueue, w)
            /\ last' = Dequeued("endpoints", Head(endpointsQueue.queue))
    /\ UNCHANGED <<storeVars, nodesQueue, servicesQueue, cfgtor, events>>

\* syncEndpoints runs from the store lookup to its return
EndSyncEndpoints(w) ==
    /\ endpointsQueue.processing[w] # NoKey
    /\ \E err \in BOOLEAN : \E err2 \in BOOLEAN : \E ords \in PortOrders :
          LET key == endpointsQueue.processing[w]
              out == syncEndpoints(key, err, err2, ords) IN
          /\ err => ~err2
          /\ cfgtor' = ApplyOps(cfgtor, out.ops)
          /\ servicesQueue' = EnqueueAll(servicesQueue, out.enqueued)
          /\ endpointsQueue' = Done(endpointsQueue, w, out.ret = "err")
          /\ last' = Returned("syncEndpoints", key, endpointsQueue, err, err2,
                              <<>>, out)
    /\ UNCHANGED <<storeVars, nodesQueue, events>>

\* syncEndpoints of src/unnamed/part_000 runs from the store lookup to its
\* return, or to the failed type assertion in getServices
EndSyncEndpoints_part000(w) ==
    /\ endpointsQueue.processing[w] # NoKey
    /\ \E err \in BOOLEAN : \E svcOrd \in Orders(DOMAIN servicesStore) :
       \E ords \in [1..MaxPorts -> Orders(DOMAIN servicesStore)] :
          LET key == endpointsQueue.processing[w]
              out == syncEndpoints_part000(key, err, svcOrd, ords) IN
          /\ endpointsQueue' = Done(endpointsQueue, w, out.ret = "err")
          /\ last' = Returned("syncEndpoints_part000", key, endpointsQueue,
                              err, FALSE, <<>>, out)
    /\ UNCHANGED <<storeVars, nodesQueue, servicesQueue, cfgtor, events>>

Workers == 1..NumWorkers

Next ==
    \/ ServiceEvent
    \/ EndpointsEvent
    \/ NodeEvent
    \/ ShutDown
    \/ \E w \in Workers : BeginSyncNodes(w)
    \/ \E w \in Workers : EndSyncNodes(w)
    \/ \E w \in Workers : BeginSyncServices(w)
    \/ \E w \in Workers : EndSyncServices(w)
    \/ \E w \in Workers : BeginSyncEndpoints(w)
    \/ \E w \in Workers : EndSyncEndpoints(w)
    \/ \E w \in Workers : EndSyncEndpoints_part000(w)

Spec == Init /\ [][Next]_vars

-----------------------------------------------------------------------------
(* Claims about the sync functions and the queues *)

\* how often the key k is in the list s
Occurrences(k, s) == Cardinality({i \in 1..Len(s) : s[i] = k})

\* syncNodes ran and its lookup succeeded on a node that is gone from the
\* store or is in it with an address
ReachedConfigurator ==
    /\ last.op = "syncNodes"
    /\ last.started = "running"
    /\ ~last.err
    /\ last.key \in DOMAIN nodesStore => nodesStore[last.key].HasAddresses

\* C2: when syncNodes(key) reaches the Configurator (DeleteNode for a node
\* that is gone, AddOrUpdateNode for a valid one), Enqueue is called on the
\* service queue for exactly the keys the Configurator returned: each of them
\* is then queued (or being processed), and nothing else has joined the queue.
C2_AffectedServicesEnqueued ==
    ReachedConfigurator =>
        /\ Len(last.ops) = 1
        /\ last.ops[1].call = IF last.key \in DOMAIN nodesStore
                              THEN "AddOrUpdateNode" ELSE "DeleteNode"
        /\ Range(last.enqueued) = Range(last.affected)
        /\ \A k \in Range(last.affected) :
              \/ Occurrences(k, servicesQueue.queue) = 1
              \/ k \in InFlight(servicesQueue)
        /\ \A k \in Range(servicesQueue.queue) :
              k \in Range(last.before) \/ k \in Range(last.affected)

\* the removal of a node cascades to two services that were not queued
C2_Witness ==
    /\ ReachedConfigurator
    /\ last.key \notin DOMAIN nodesStore
    /\ Len(last.affected) = 2
    /\ last.affected[1] # last.affected[2]
    /\ last.before = <<>>
    /\ servicesQueue.queue = last.affected

\* the queue an informer or a worker names in last
QueueNamed(name) ==
    CASE name = "nodes" -> nodesQueue
      [] name = "services" -> servicesQueue
      [] name = "endpoints" -> endpointsQueue

\* a queue holds a key once at most, no two workers process the same key, and
\* a key that is being processed is not queued for another worker
SingleFlight(q) ==
    /\ \A k \in Range(q.queue) : Occurrences(k, q.queue) = 1
    /\ \A w1, w2 \in Workers :
          (w1 # w2 /\ q.processing[w1] # NoKey)
              => q.processing[w1] # q.processing[w2]
    /\ \A k \in InFlight(q) : k \notin Range(q.queue)

Identifier(key) == [i \in 1..Len(key) |-> IF key[i] = "/" THEN "-" ELSE key[i]]

\* the service under key resolves to a TCP or UDP routing model
ResolvesToSome(key) ==
    \E ords \in PortOrders : RecordCount(getService(key, FALSE, ords)) > 0

\* syncServices ran, not shutting down, and its store lookups succeeded
SyncServicesRan ==
    /\ last.op = "syncServices"
    /\ last.started = "running"
    /\ ~last.err
    /\ ~last.err2

\* C4: a syncServices(key) that is not shutting down and whose store lookup
\* succeeds makes at most one Configurator call, decided by the store: for a
\* key that is not in the store DeleteConfiguration(identifier, StreamCfg),
\* for a valid object that resolves to a routing model
\* AddOrUpdateService(identifier, spec of the key), and none otherwise. The
\* identifier is the key with every "/" replaced by "-".
C4_OneConfiguratorOperation ==
    SyncServicesRan =>
        /\ Len(last.ops) <= 1
        /\ IF last.key \notin DOMAIN servicesStore
           THEN last.ops = <<[call |-> "DeleteConfiguration",
                              filename |-> Identifier(last.key),
                              cfgType |-> "StreamCfg"]>>
           ELSE IF /\ ValidateServiceObjectType(servicesStore[last.key])
                   /\ ResolvesToSome(last.key)
           THEN last.ops = <<[call |-> "AddOrUpdateService",
                              filename |-> Identifier(last.key),
                              svcSpec |-> [Key |-> last.key,
                                           Service |-> servicesStore[last.key]]]>>
           ELSE last.ops = <<>>

\* a service that resolves has been applied under its identifier
C4_Witness ==
    /\ SyncServicesRan
    /\ last.key \in DOMAIN servicesStore
    /\ ResolvesToSome(last.key)
    /\ Len(last.ops) = 1
    /\ last.ops[1].call = "AddOrUpdateService"
    /\ Identifier(last.key) \in DOMAIN cfgtor.configs
    /\ "/" \notin Range(last.ops[1].filename)

-----------------------------------------------------------------------------
(* Claims about the records of the resolver's output *)

\* C11: whatever the order in which the stores list their objects, the TCP
\* list and the UDP list that getServices (of either revision) and getService
\* return are in non-decreasing order of rule name.
C11_SortedByRuleName ==
    last.op \in {"getService", "getServices", "getServices_part000"} =>
        \A o \in DOMAIN last.results :
            ~last.results[o].panic =>
                /\ IsSortedByName(last.results[o].tcp)
                /\ IsSortedByName(last.results[o].udp)
                /\ \A i \in 1..Len(last.results[o].tcp) - 1 :
                      ~StrLess(last.results[o].tcp[i + 1].Name,
                               last.results[o].tcp[i].Name)

\* getServices returns two TCP records of two services that the store lists
\* against the order of their rule names, and getService returns two TCP
\* records of one service whose ports are declared against that order
C11_Witness ==
    \/ /\ last.op = "getServices"
       /\ Cardinality(DOMAIN servicesStore) = 2
       /\ \E o \in DOMAIN last.results :
             /\ ~last.results[o].panic
             /\ Len(last.results[o].tcp) = 2
             /\ StrLess(last.results[o].tcp[1].Name, last.results[o].tcp[2].Name)
             /\ LET first == servicesStore[o[1][1]] IN
                last.results[o].tcp[2].Name
                   = GetServiceNameForLBRule(first.Name, first.Ports[1].Port)
    \/ /\ last.op = "getService"
       /\ last.key \in DOMAIN servicesStore
       /\ Len(servicesStore[last.key].Ports) = 2
       /\ servicesStore[last.key].Ports[1].Port > servicesStore[last.key].Ports[2].Port
       /\ \A o \in DOMAIN last.results :
             /\ Len(last.results[o].tcp) = 2
             /\ last.results[o].tcp[1].FrontendPort < last.results[o].tcp[2].FrontendPort

\* C12: no invocation of the resolver ends in a failed type assertion:
\* whatever the stores hold and in whatever order they list it, getService
\* and getServices (of either revision) return their two lists.
C12_NoFailedTypeAssertion ==
    last.op \in {"getService", "getServices", "getServices_part000"} =>
        \A o \in DOMAIN last.results : ~last.results[o].panic

-----------------------------------------------------------------------------
(* Claims about the returns of the sync functions and about shutdown *)

SyncOps == {"syncNodes", "syncServices", "syncEndpoints"}

\* a GetByKey made by the invocation in last failed: the one of the sync
\* function, or the one getService makes when the sync function calls it
LookupFailed ==
    \/ last.err
    \/ /\ last.err2
       /\ \/ last.op = "syncServices" /\ last.key \in DOMAIN servicesStore
          \/ last.op = "syncEndpoints" /\ last.key \in DOMAIN endpointStore

\* C13: a sync function returns an error exactly when a GetByKey lookup of
\* the store failed, and has then called no Configurator operation and
\* enqueued nothing; every other outcome returns nil.
C13_ErrorIffLookupFails ==
    (last.op \in SyncOps /\ last.started = "running") =>
        /\ last.ret \in {"nil", "err"}
        /\ last.ret = "err" <=> LookupFailed
        /\ last.ret = "err" => last.ops = <<>> /\ last.enqueued = <<>>

\* a step in which a worker takes a key from the queue q, which is shutting
\* down, is an invocation of the sync function op that returns nil at once:
\* no Configurator call, nothing enqueued, no store changed, no invocation
\* left in progress
ReturnsAtOnce(q, qNext, op) ==
    (IsShuttingDown(q) /\ Len(qNext.queue) < Len(q.queue)) =>
        /\ last'.op = op
        /\ last'.key = Head(q.queue)
        /\ last'.ret = "nil"
        /\ last'.ops = <<>>
        /\ last'.enqueued = <<>>
        /\ qNext.processing = q.processing
        /\ qNext.queue = Tail(q.queue)
        /\ cfgtor' = cfgtor
        /\ storeVars' = storeVars

\* C14: a sync invocation that starts while its own queue reports
\* IsShuttingDown() returns nil and changes nothing: it calls no Configurator
\* operation, enqueues no key on any queue and leaves the stores and the
\* other two queues as they are.
C14_ShutdownEarlyReturn ==
    [][/\ ReturnsAtOnce(nodesQueue, nodesQueue', "syncNodes")
       /\ ReturnsAtOnce(servicesQueue, servicesQueue', "syncServices")
       /\ ReturnsAtOnce(endpointsQueue, endpointsQueue', "syncEndpoints")
       /\ \A q \in {<<nodesQueue, nodesQueue'>>,
                     <<servicesQueue, servicesQueue'>>,
                     <<endpointsQueue, endpointsQueue'>>} :
             (IsShuttingDown(q[1]) /\ Len(q[2].queue) < Len(q[1].queue)) =>
                 Cardinality({r \in {<<nodesQueue, nodesQueue'>>,
                                      <<servicesQueue, servicesQueue'>>,
                                      <<endpointsQueue, endpointsQueue'>>} :
                                 r[1] # r[2]}) = 1
      ]_vars

\* syncServices has returned at once for a service that resolves and has no
\* configuration
C14_Witness ==
    /\ last.op = "syncServices"
    /\ last.started = "shuttingDown"
    /\ IsShuttingDown(servicesQueue)
    /\ ResolvesToSome(last.key)
    /\ last.ops = <<>>
    /\ cfgtor.configs = <<>>

\* C15: once the shutdown has been signalled to a queue, its sync function
\* makes no Configurator call any more, also when the invocation was in
\* progress at the signal.
C15_NoConfigurationAfterShutdown ==
    (last.op \in SyncOps /\ last.shutdown) => last.ops = <<>>

-----------------------------------------------------------------------------
(* Claims about the fields of the records *)

\* no two records of the list have the same rule name
DistinctNames(list) ==
    \A i, j \in 1..Len(list) : i # j => list[i].Name # list[j].Name

\* C16: the records of one list of the resolver's output come from different
\* (namespace, service name, frontend port) triples, and any two of them have
\* different rule names; so do two eligible services with the same name and
\* port in different namespaces.
C16_RuleNameIdentifiesTriple ==
    last.op \in {"getService", "getServices", "getServices_part000"} =>
        \A o \in DOMAIN last.results :
            ~last.results[o].panic =>
                /\ DistinctNames(last.results[o].tcp)
                /\ DistinctNames(last.results[o].udp)

\* the address ep is an address behind the port number port: "ip:port"
BehindPort(ep, port) ==
    LET suffix == <<":">> \o IntToStr(port) IN
    /\ Len(ep) > Len(suffix)
    /\ SubSeq(ep, Len(ep) - Len(suffix) + 1, Len(ep)) = suffix

\* C17: the BackendPort of every record of the resolver's output is the port
\* number after the colon of each of the record's endpoint addresses, for a
\* numeric target port and for a symbolic one.
C17_BackendPortIsResolvedTarget ==
    last.op \in {"getService", "getServices", "getServices_part000"} =>
        \A o \in DOMAIN last.results :
            \A r \in Records(last.results[o]) :
                \A i \in 1..Len(r.Ep) : BehindPort(r.Ep[i], r.BackendPort)

-----------------------------------------------------------------------------
(* Claims about syncEndpoints *)

SyncEndpointsOps == {"syncEndpoints", "syncEndpoints_part000"}

\* C18: an invocation of syncEndpoints (of either revision) changes nothing
\* outside itself, whether the Endpoints object is in the store or not and
\* whatever the service resolves to: no Configurator call, no key enqueued on
\* any queue, the stores and the Configurator as before; it ends by returning
\* nil or an error, and that value is its only effect (the queue puts the key
\* back after an error).
C18_SyncEndpointsNoEffects ==
    [][last'.op \in SyncEndpointsOps =>
          /\ last'.ret \in {"nil", "err"}
          /\ last'.ops = <<>>
          /\ last'.enqueued = <<>>
          /\ cfgtor' = cfgtor
          /\ storeVars' = storeVars
          /\ nodesQueue' = nodesQueue
          /\ servicesQueue' = servicesQueue
          /\ Range(endpointsQueue'.queue) \subseteq
                Range(endpointsQueue.queue)
                   \cup (IF last'.ret = "err" THEN {last'.key} ELSE {})
      ]_vars

-----------------------------------------------------------------------------
(* Claims about the configurations the Configurator holds *)

\* the Configurator holds, under the identifier of the key, the configuration
\* that was applied for the key
HoldsConfigurationOf(key) ==
    /\ Identifier(key) \in DOMAIN cfgtor.configs
    /\ cfgtor.configs[Identifier(key)] = key

\* C19: whenever a syncServices(key) that was not shutting down and whose
\* lookups succeeded has returned nil, the Configurator holds the
\* configuration of the key under its identifier exactly if the service is in
\* the store and resolves to a TCP or UDP routing model; a service that was
\* applied and has since lost its annotation or its endpoints has none.
C19_ConfigurationFollowsStore ==
    (SyncServicesRan /\ last.ret = "nil" /\ ~last.shutdown) =>
        (HoldsConfigurationOf(last.key)
            <=> (last.key \in DOMAIN servicesStore /\ ResolvesToSome(last.key)))

\* C20: the identifiers of different service keys are different, so that a
\* DeleteConfiguration or AddOrUpdateService made while one key is synced
\* leaves every configuration that was applied for another key in place and
\* as it was.
C20_ConfigurationsIsolated ==
    [][last'.op = "syncServices" =>
          \A f \in DOMAIN cfgtor.configs :
              cfgtor.configs[f] # last'.key =>
                  /\ f \in DOMAIN cfgtor'.configs
                  /\ cfgtor'.configs[f] = cfgtor.configs[f]
      ]_vars

=============================================================================
